---------------------------- MODULE Spec2Model ----------------------------
(***************************************************************************)
(* A model of etl.py: the three-stage batch pipeline                       *)
(*   load_source_data -> process_source_data -> build_data_model           *)
(* with its quality gate check_model_quality.                              *)
(*                                                                         *)
(* Tables are bags (multisets) of rows, a row is a record whose fields are *)
(* the SQL columns.  A nullable SQL value is a tuple: << >> is SQL NULL    *)
(* and <<v>> is the value v.  A DATE is the number of days since           *)
(* 1970-01-01.  Latitudes and longitudes are whole numbers of Unit-ths of  *)
(* a degree.                                                               *)
(***************************************************************************)
EXTENDS Integers, Sequences, FiniteSets, Bags, TLC

VARIABLES
    pc,            \* position of main / build_data_model
    input_data,    \* the external datasets read by load_source_data
    source,        \* data lake layer source/*
    preprocessed,  \* data lake layer preprocessed/*
    analytics,     \* data lake layer analytics/*
    model_data,    \* [fact, cities, time] built in build_data_model
    check_res,     \* result of check_model_quality
    first_run      \* the layers as the first run left them, once main runs again

vars ==
    <<pc, input_data, source, preprocessed, analytics, model_data, check_res, first_run>>

---------------------------------------------------------------------------
(* SQL values                                                              *)

NULL == << >>

Some(v) == <<v>>

Val(x) == x[1]

IsNull(x) == x = NULL

NotNull(x) == x # NULL

\* a = b is TRUE in SQL only when both sides are known
SqlEq(a, b) == a # NULL /\ b # NULL /\ a = b

SqlNe(a, b) == a # NULL /\ b # NULL /\ a # b

SqlGe(a, b) == a # NULL /\ b # NULL /\ Val(a) >= Val(b)

---------------------------------------------------------------------------
(* Relational operators on bags                                            *)

RECURSIVE SumOver(_, _)
SumOver(S, w) ==
    IF S = {} THEN 0
    ELSE LET x == CHOOSE y \in S : TRUE
         IN  w[x] + SumOver(S \ {x}, w)

\* the bag holding row[x], mult[x] times, for every x of DOMAIN row
BagFrom(row, mult) ==
    LET S == DOMAIN row
    IN  [r \in {row[x] : x \in S} |-> SumOver({x \in S : row[x] = r}, mult)]

\* SELECT row[x] FROM T x, for row a function on the rows of T
Select(T, row) == BagFrom(row, T)

\* SELECT * FROM T x WHERE x is in K
Where(T, K) == [x \in (DOMAIN T) \cap K |-> T[x]]

\* SELECT DISTINCT * FROM T
Distinct(T) == [x \in DOMAIN T |-> 1]

\* A a JOIN B b ON <<a, b>> is in P: the bag of the matching pairs <<a, b>>
Join(A, B, P) ==
    [p \in ((DOMAIN A) \X (DOMAIN B)) \cap P |-> A[p[1]] * B[p[2]]]

\* A a LEFT JOIN B b ON <<a, b>> is in P: the matching pairs and, for each a
\* without match, the pair of a and the all-NULL row nullB
LeftJoin(A, B, P, nullB) ==
    LET M == ((DOMAIN A) \X (DOMAIN B)) \cap P
        U == {a \in DOMAIN A : \A b \in DOMAIN B : <<a, b>> \notin M}
    IN  [p \in M \cup {<<a, nullB>> : a \in U} |->
            IF p \in M THEN A[p[1]] * B[p[2]] ELSE A[p[1]]]

\* the pairs of a row of A and a row of B
Pairs(A, B) == (DOMAIN A) \X (DOMAIN B)

\* A UNION B (duplicates eliminated across the union)
Union(A, B) == [x \in (DOMAIN A) \cup (DOMAIN B) |-> 1]

\* T.count()
Count(T) == BagCardinality(T)

---------------------------------------------------------------------------
(* Calendar arithmetic on DATE values (days since 1970-01-01)              *)

\* to_date('YYYY-MM-DD') of a calendar date
DaysFromCivil(y0, m, d) ==
    LET y   == IF m <= 2 THEN y0 - 1 ELSE y0
        era == y \div 400
        yoe == y - era * 400
        mp  == IF m > 2 THEN m - 3 ELSE m + 9
        doy == (153 * mp + 2) \div 5 + d - 1
        doe == yoe * 365 + yoe \div 4 - yoe \div 100 + doy
    IN  era * 146097 + doe - 719468

\* the calendar date <<year, month, day>> of a DATE
CivilFromDays(n) ==
    LET z   == n + 719468
        era == z \div 146097
        doe == z - era * 146097
        yoe == (doe - doe \div 1460 + doe \div 36524 - doe \div 146096) \div 365
        doy == doe - (365 * yoe + yoe \div 4 - yoe \div 100)
        mp  == (5 * doy + 2) \div 153
        d   == doy - (153 * mp + 2) \div 5 + 1
        m   == IF mp < 10 THEN mp + 3 ELSE mp - 9
        y   == yoe + era * 400 + (IF m <= 2 THEN 1 ELSE 0)
    IN  <<y, m, d>>

YEAR(dt) == IF dt = NULL THEN NULL ELSE Some(CivilFromDays(Val(dt))[1])

MONTH(dt) == IF dt = NULL THEN NULL ELSE Some(CivilFromDays(Val(dt))[2])

DAY(dt) == IF dt = NULL THEN NULL ELSE Some(CivilFromDays(Val(dt))[3])

\* 1 = Sunday ... 7 = Saturday; 1970-01-01 was a Thursday
DAYOFWEEK(dt) == IF dt = NULL THEN NULL ELSE Some(((Val(dt) + 4) % 7) + 1)

\* number of ISO weeks of a year
WeeksInYear(y) ==
    LET p(x) == (x + x \div 4 - x \div 100 + x \div 400) % 7
    IN  IF p(y) = 4 \/ p(y - 1) = 3 THEN 53 ELSE 52

\* ISO 8601 week number
WEEKOFYEAR(dt) ==
    IF dt = NULL THEN NULL
    ELSE LET n   == Val(dt)
             y   == CivilFromDays(n)[1]
             doy == n - DaysFromCivil(y, 1, 1) + 1
             wd  == ((n + 3) % 7) + 1
             w   == (doy - wd + 10) \div 7
         IN  Some(IF w < 1 THEN WeeksInYear(y - 1)
                  ELSE IF w > WeeksInYear(y) THEN 1
                  ELSE w)

\* date_add(start, days)
date_add(start, days) ==
    IF start = NULL \/ days = NULL THEN NULL ELSE Some(Val(start) + Val(days))

\* to_date('1960-01-01'), the SAS epoch
SasEpoch == Some(DaysFromCivil(1960, 1, 1))

---------------------------------------------------------------------------
(* Scalar SQL functions used by load_source_data                           *)

\* UPPER on the strings that occur in the datasets of the model
UpperStr(s) ==
    CASE s = "Mexico"        -> "MEXICO"
      [] s = "Canada"        -> "CANADA"
      [] s = "Chicago"       -> "CHICAGO"
      [] s = "Gary"          -> "GARY"
      [] s = "Illinois"      -> "ILLINOIS"
      [] s = "Indiana"       -> "INDIANA"
      [] s = "United States" -> "UNITED STATES"
      [] s = "il"            -> "IL"
      [] s = "in"            -> "IN"
      [] OTHER               -> s

UPPER(x) == IF x = NULL THEN NULL ELSE Some(UpperStr(Val(x)))

\* CAST(x AS LONG) / CAST(x AS DOUBLE) of a field holding a number or NULL
CastNum(x) == x

\* CAST(dt AS DATE) of a 'YYYY-MM-DD' text, held as <<year, month, day>>
CastDate(x) ==
    IF x = NULL THEN NULL
    ELSE Some(DaysFromCivil(Val(x)[1], Val(x)[2], Val(x)[3]))

\* SPLIT(x, sep)[i], the text x held as the sequence of its tokens
SplitAt(x, i) ==
    IF x = NULL THEN NULL
    ELSE IF i + 1 <= Len(Val(x)) THEN Some(Val(x)[i + 1]) ELSE NULL

\* CAST(SUBSTRING(x, 1, LENGTH(x) - 1) AS DOUBLE) of a text such as 41.50N,
\* held as <<number, suffix>>
DropSuffix(x) == IF x = NULL THEN NULL ELSE Some(Val(x)[1])

---------------------------------------------------------------------------
(* load_source_data                                                        *)

\* i94_source_table
i94_source(inp) ==
    LET i94     == inp.i94_table
        country == inp.country_table
        port    == inp.port_table
        mode    == inp.mode_table
        visa    == inp.visa_table
        states  == inp.states_df
        \* the six inner joins: the combinations <<i, c1, c2, p, m, v, s>> of
        \* one row of each joined table that satisfy the six ON clauses
        matches ==
            {t \in (DOMAIN i94) \X (DOMAIN country) \X (DOMAIN country)
                     \X (DOMAIN port) \X (DOMAIN mode) \X (DOMAIN visa)
                     \X (DOMAIN states) :
                /\ SqlEq(CastNum(t[1].i94res), t[2].code)
                /\ SqlEq(CastNum(t[1].i94cit), t[3].code)
                /\ SqlEq(t[1].i94port, t[4].code)
                /\ SqlEq(CastNum(t[1].i94mode), t[5].code)
                /\ SqlEq(CastNum(t[1].i94visa), t[6].code)
                /\ SqlEq(t[4].state, t[7].code)}
        mult(t) == i94[t[1]] * country[t[2]] * country[t[3]] * port[t[4]]
                       * mode[t[5]] * visa[t[6]] * states[t[7]]
        row(i, c1, c2, p, m, v, s) ==
            LET arr == date_add(SasEpoch, CastNum(i.arrdate))
            IN  [id                     |-> CastNum(i.cicid),
                 country_of_residence   |-> UPPER(c1.country_name),
                 country_of_citizenship |-> UPPER(c2.country_name),
                 city_of_entry          |-> UPPER(p.port_location),
                 state_of_entry_code    |-> UPPER(p.state),
                 state_of_entry_full    |-> UPPER(s.state),
                 border_cross_method    |-> m.border_cross_method,
                 type_of_visa           |-> v.visa_type,
                 class_of_admission     |-> i.visatype,
                 gender                 |-> i.gender,
                 age                    |-> CastNum(i.i94bir),
                 arr_date               |-> arr,
                 dep_date               |-> date_add(SasEpoch, CastNum(i.depdate)),
                 year                   |-> YEAR(arr),
                 month                  |-> MONTH(arr),
                 day                    |-> DAY(arr)]
    IN  BagFrom([t \in matches |-> row(t[1], t[2], t[3], t[4], t[5], t[6], t[7])],
                [t \in matches |-> mult(t)])

\* cities_pop_source_table
cities_pop_source(inp) ==
    LET row(c) == [city               |-> UPPER(c.city),
                   state              |-> UPPER(c.state),
                   median_age         |-> CastNum(c.median_age),
                   male_population    |-> CastNum(c.male_population),
                   female_population  |-> CastNum(c.female_population),
                   total_population   |-> CastNum(c.total_population),
                   number_of_veterans |-> CastNum(c.number_of_veterans),
                   foreign_born       |-> CastNum(c.foreign_born),
                   avg_household_size |-> CastNum(c.avg_household_size),
                   state_code         |-> UPPER(c.state_code),
                   race               |-> c.race,
                   count              |-> CastNum(c.count)]
    IN  Select(inp.cities_pop_table, [c \in DOMAIN inp.cities_pop_table |-> row(c)])

\* airports_source_table
airports_source(inp) ==
    LET keep(a) == SqlEq(a.iso_country, Some("US")) /\ SqlNe(a.type, Some("closed"))
        row(a)  == [type         |-> a.type,
                    name         |-> a.name,
                    elevation_ft |-> CastNum(a.elevation_ft),
                    iso_region   |-> UPPER(SplitAt(a.iso_region, 1)),
                    municipality |-> UPPER(a.municipality),
                    gps_code     |-> a.gps_code,
                    lon          |-> CastNum(SplitAt(a.coordinates, 0)),
                    lat          |-> CastNum(SplitAt(a.coordinates, 1))]
        kept    == Where(inp.airports_table, {a \in DOMAIN inp.airports_table : keep(a)})
    IN  Select(kept, [a \in DOMAIN kept |-> row(a)])

\* weather_source_table
weather_source(inp) ==
    LET keep(w) == /\ SqlEq(w.Country, Some("United States"))
                   /\ SqlGe(YEAR(CastDate(w.dt)), Some(1960))
        row(w)  == LET d == CastDate(w.dt)
                   IN  [dt              |-> d,
                        year            |-> YEAR(d),
                        month           |-> MONTH(d),
                        day             |-> DAY(d),
                        avg_temperature |-> CastNum(w.AverageTemperature),
                        city            |-> UPPER(w.City),
                        country         |-> UPPER(w.Country),
                        lon             |-> IF DropSuffix(w.Longitude) = NULL THEN NULL
                                            ELSE Some(Val(DropSuffix(w.Longitude)) * (-1)),
                        lat             |-> DropSuffix(w.Latitude)]
        kept    == Where(inp.weather_table, {w \in DOMAIN inp.weather_table : keep(w)})
    IN  Select(kept, [w \in DOMAIN kept |-> row(w)])

\* load_source_tables with SELECT DISTINCT in the travel events: equal records
\* give one row
load_source_tables_distinct_events(inp) ==
    [i94         |-> Distinct(i94_source(inp)),
     demographic |-> cities_pop_source(inp),
     weather     |-> weather_source(inp),
     airports    |-> airports_source(inp)]

\* the four source tables written at the end of load_source_data
load_source_tables(inp) ==
    [i94         |-> i94_source(inp),
     demographic |-> cities_pop_source(inp),
     weather     |-> weather_source(inp),
     airports    |-> airports_source(inp)]

---------------------------------------------------------------------------
(* process_source_data                                                     *)

\* clean_i94 without the "dep_date IS NULL OR": an event without departure
\* date is dropped
clean_i94_null_departure_dropped(T) ==
    LET keep(i) == /\ NotNull(i.id)
                   /\ NotNull(i.state_of_entry_code)
                   /\ NotNull(i.city_of_entry)
                   /\ NotNull(i.arr_date)
                   /\ SqlGe(i.dep_date, i.arr_date)
    IN  Distinct(Where(T, {i \in DOMAIN T : keep(i)}))

\* the cleaned i94_source_table
clean_i94(T) ==
    LET keep(i) == /\ NotNull(i.id)
                   /\ NotNull(i.state_of_entry_code)
                   /\ NotNull(i.city_of_entry)
                   /\ NotNull(i.arr_date)
                   /\ (IsNull(i.dep_date) \/ SqlGe(i.dep_date, i.arr_date))
    IN  Distinct(Where(T, {i \in DOMAIN T : keep(i)}))

\* step 1 of the demographic cleaning
filter_cities_pop(T) ==
    LET keep(c) == NotNull(c.city) /\ NotNull(c.state_code)
    IN  Where(T, {c \in DOMAIN T : keep(c)})

\* the sub-query ( SELECT city, state, count FROM cities_pop_source_table
\*                 WHERE race = label )
race_counts(T, label) ==
    LET keep(c) == SqlEq(c.race, Some(label))
        row(c)  == [city |-> c.city, state |-> c.state, count |-> c.count]
        kept    == Where(T, {c \in DOMAIN T : keep(c)})
    IN  Select(kept, [c \in DOMAIN kept |-> row(c)])

\* the ON clause of each of the five left joins
same_city_state(c, x) == SqlEq(c.city, x.city) /\ SqlEq(c.state, x.state)

NoRaceCount == [city |-> NULL, state |-> NULL, count |-> NULL]

\* steps 2 and 3 of the demographic cleaning: the pivot
pivot_cities_pop(T) ==
    LET x1 == race_counts(T, "American Indian and Alaska Native")
        x2 == race_counts(T, "Asian")
        x3 == race_counts(T, "White")
        x4 == race_counts(T, "Hispanic or Latino")
        x5 == race_counts(T, "Black or African-American")
        \* the rows of the sub-query X that one LEFT JOIN gives to row c: its
        \* matches, or the all-NULL row when it has none
        joined(c, X) ==
            LET matched == {x \in DOMAIN X : same_city_state(c, x)}
            IN  IF matched = {} THEN {NoRaceCount} ELSE matched
        copies(c, X, x) == IF same_city_state(c, x) THEN X[x] ELSE 1
        \* the five left joins: the combinations <<c, c1, c2, c3, c4, c5>>; every
        \* ON clause compares columns of c alone, so each join extends the row
        \* independently of the others
        combos ==
            {t \in (DOMAIN T) \X ((DOMAIN x1) \cup {NoRaceCount})
                     \X ((DOMAIN x2) \cup {NoRaceCount})
                     \X ((DOMAIN x3) \cup {NoRaceCount})
                     \X ((DOMAIN x4) \cup {NoRaceCount})
                     \X ((DOMAIN x5) \cup {NoRaceCount}) :
                /\ t[2] \in joined(t[1], x1)
                /\ t[3] \in joined(t[1], x2)
                /\ t[4] \in joined(t[1], x3)
                /\ t[5] \in joined(t[1], x4)
                /\ t[6] \in joined(t[1], x5)}
        mult(t) == T[t[1]] * copies(t[1], x1, t[2]) * copies(t[1], x2, t[3])
                       * copies(t[1], x3, t[4]) * copies(t[1], x4, t[5])
                       * copies(t[1], x5, t[6])
        row(t) == [city                              |-> t[1].city,
                   state                             |-> t[1].state,
                   state_code                        |-> t[1].state_code,
                   median_age                        |-> t[1].median_age,
                   male_population                   |-> t[1].male_population,
                   female_population                 |-> t[1].female_population,
                   total_population                  |-> t[1].total_population,
                   number_of_veterans                |-> t[1].number_of_veterans,
                   foreign_born                      |-> t[1].foreign_born,
                   avg_household_size                |-> t[1].avg_household_size,
                   american_indian_and_alaska_native |-> t[2].count,
                   asian                             |-> t[3].count,
                   white                             |-> t[4].count,
                   hispanic_or_latino                |-> t[5].count,
                   black_or_african_american         |-> t[6].count]
    IN  Distinct(BagFrom([t \in combos |-> row(t)], [t \in combos |-> mult(t)]))

\* the cleaned cities_pop_source_table
clean_cities_pop(T) == pivot_cities_pop(filter_cities_pop(T))

\* the cleaned airports_source_table
clean_airports(T) ==
    LET keep(a) == /\ NotNull(a.municipality)
                   /\ NotNull(a.iso_region)
                   /\ NotNull(a.lat)
                   /\ NotNull(a.lon)
    IN  Where(T, {c \in DOMAIN T : keep(c)})

\* steps 1 and 2 of the weather cleaning
filter_weather(T) ==
    LET keep(w) == /\ NotNull(w.avg_temperature)
                   /\ NotNull(w.dt)
                   /\ NotNull(w.city)
                   /\ NotNull(w.lat)
                   /\ NotNull(w.lon)
    IN  Distinct(Where(T, {i \in DOMAIN T : keep(i)}))

\* the resolution of coordinates: units per degree
Unit == 2

DISTANCE_THRESHOLD == 1

\* the largest whole number whose square is at most x
RECURSIVE FloorSqrt(_, _)
FloorSqrt(x, r) == IF (r + 1) * (r + 1) > x THEN r ELSE FloorSqrt(x, r + 1)

\* within_threshold with <= for <: an airport at exactly the threshold matches
within_threshold_inclusive(w1, a) ==
    /\ NotNull(w1.lat) /\ NotNull(a.lat) /\ NotNull(w1.lon) /\ NotNull(a.lon)
    /\ LET dlat == Val(w1.lat) - Val(a.lat)
           dlon == Val(w1.lon) - Val(a.lon)
       IN  dlat * dlat + dlon * dlon
               <= (Unit * DISTANCE_THRESHOLD) * (Unit * DISTANCE_THRESHOLD)

\* SQRT((w1.lat-a.lat)*(w1.lat-a.lat)+(w1.lon-a.lon)*(w1.lon-a.lon)) <
\* DISTANCE_THRESHOLD, in degrees.  With coordinates in Unit-ths of a degree
\* the distance is below the threshold exactly when the floor of the square
\* root of the squared distance in units is below Unit * DISTANCE_THRESHOLD.
within_threshold(w1, a) ==
    /\ NotNull(w1.lat) /\ NotNull(a.lat) /\ NotNull(w1.lon) /\ NotNull(a.lon)
    /\ LET dlat == Val(w1.lat) - Val(a.lat)
           dlon == Val(w1.lon) - Val(a.lon)
       IN  FloorSqrt(dlat * dlat + dlon * dlon, 0) < Unit * DISTANCE_THRESHOLD

\* the first tmp_loc_table: the distinct weather locations
weather_locations(W) ==
    LET row(w) == [city |-> w.city, lat |-> w.lat, lon |-> w.lon]
    IN  Distinct(Select(W, [w \in DOMAIN W |-> row(w)]))

\* location_regions with a tie-break: each location keeps one of its regions
location_regions_one_region(L, A) ==
    LET on(w1, a)  == within_threshold(w1, a) /\ SqlEq(w1.city, a.municipality)
        row(w1, a) == [city |-> w1.city, state |-> a.iso_region,
                       lat |-> w1.lat, lon |-> w1.lon]
        m          == Join(L, A, {p \in Pairs(L, A) : on(p[1], p[2])})
        all        == {row(p[1], p[2]) : p \in DOMAIN m}
        pick(x)    == CHOOSE r \in all :
                          r.city = x.city /\ r.lat = x.lat /\ r.lon = x.lon
    IN  [r \in {pick(x) : x \in all} |-> 1]

\* the second tmp_loc_table: the regions of each weather location
location_regions(L, A) ==
    LET on(w1, a)  == within_threshold(w1, a) /\ SqlEq(w1.city, a.municipality)
        row(w1, a) == [city |-> w1.city, state |-> a.iso_region,
                       lat |-> w1.lat, lon |-> w1.lon]
        m          == Join(L, A, {p \in Pairs(L, A) : on(p[1], p[2])})
    IN  Distinct(Select(m, [p \in DOMAIN m |-> row(p[1], p[2])]))

RECURSIVE Gcd(_, _)
Gcd(a, b) == IF b = 0 THEN a ELSE Gcd(b, a % b)

\* the quotient num / den as a reduced fraction <<numerator, denominator>>
Fraction(num, den) ==
    LET a == IF num < 0 THEN 0 - num ELSE num
        g == Gcd(a, den)
    IN  <<num \div g, den \div g>>

\* weather joined to its regions, grouped, with AVG(avg_temperature)
weather_with_region(W, R) ==
    LET on(w, w1)  == SqlEq(w.city, w1.city) /\ SqlEq(w.lat, w1.lat) /\ SqlEq(w.lon, w1.lon)
        row(w, w1) == [dt |-> w.dt, year |-> w.year, month |-> w.month, day |-> w.day,
                       city |-> w.city, state |-> w1.state, lat |-> w.lat,
                       lon |-> w.lon, avg_temperature |-> w.avg_temperature]
        m          == Join(W, R, {p \in Pairs(W, R) : on(p[1], p[2])})
        J          == Select(m, [p \in DOMAIN m |-> row(p[1], p[2])])
        key(j)     == [dt |-> j.dt, year |-> j.year, month |-> j.month, day |-> j.day,
                       city |-> j.city, state |-> j.state, lat |-> j.lat, lon |-> j.lon]
        group(k)   == {j \in DOMAIN J : key(j) = k}
        total(k)   == SumOver(group(k), [j \in group(k) |-> Val(j.avg_temperature) * J[j]])
        number(k)  == SumOver(group(k), [j \in group(k) |-> J[j]])
        out(k)     == [dt |-> k.dt, year |-> k.year, month |-> k.month, day |-> k.day,
                       city |-> k.city, state |-> k.state, lat |-> k.lat, lon |-> k.lon,
                       avg_temperature |-> Some(Fraction(total(k), number(k)))]
    IN  [r \in {out(key(j)) : j \in DOMAIN J} |-> 1]

\* the cleaned weather_source_table
clean_weather(W, A) ==
    LET w == filter_weather(W)
    IN  weather_with_region(w, location_regions(weather_locations(w), clean_airports(A)))

\* the four preprocessed tables written at the end of process_source_data
process_source_tables(src) ==
    [i94         |-> clean_i94(src.i94),
     demographic |-> clean_cities_pop(src.demographic),
     weather     |-> clean_weather(src.weather, src.airports),
     airports    |-> clean_airports(src.airports)]

---------------------------------------------------------------------------
(* check_model_quality                                                     *)

NoTimeRow ==
    [dt |-> NULL, year |-> NULL, month |-> NULL, day |-> NULL, dow |-> NULL,
     week |-> NULL]

\* check_query joining on the month alone: the year is not compared
check_query_month_only(fact, time) ==
    LET on(f, t)  == SqlEq(MONTH(f.arr_date), MONTH(t.dt))
        row(f, t) == [arr_date |-> f.arr_date, dt |-> t.dt]
        miss(r)   == IsNull(r.dt)
        m         == LeftJoin(fact, time, {p \in Pairs(fact, time) : on(p[1], p[2])},
                              NoTimeRow)
        J         == Select(m, [p \in DOMAIN m |-> row(p[1], p[2])])
    IN  Where(J, {r \in DOMAIN J : miss(r)})

\* check_query: the fact rows left without a dim_time row of their month
check_query(fact, time) ==
    LET on(f, t)  == /\ SqlEq(YEAR(f.arr_date), YEAR(t.dt))
                     /\ SqlEq(MONTH(f.arr_date), MONTH(t.dt))
        row(f, t) == [arr_date |-> f.arr_date, dt |-> t.dt]
        miss(r)   == IsNull(r.dt)
        m         == LeftJoin(fact, time, {p \in Pairs(fact, time) : on(p[1], p[2])},
                              NoTimeRow)
        J         == Select(m, [p \in DOMAIN m |-> row(p[1], p[2])])
    IN  Where(J, {r \in DOMAIN J : miss(r)})

\* model_data = <<fact_i94_history_table, dim_cities_table, dim_time_table>>
check_model_quality(md) ==
    LET fact_i94_history_table == md[1]
        dim_cities_table       == md[2]
        dim_time_table         == md[3]
    IN  IF \/ Count(fact_i94_history_table) = 0
           \/ Count(dim_cities_table) = 0
           \/ Count(dim_time_table) = 0
        THEN FALSE
        ELSE IF Count(check_query(fact_i94_history_table, dim_time_table)) > 0
        THEN FALSE
        ELSE TRUE

---------------------------------------------------------------------------
(* build_data_model: the three tables                                      *)

\* the columns of a dim_time row
time_row(d) ==
    [dt |-> d, year |-> YEAR(d), month |-> MONTH(d), day |-> DAY(d),
     dow |-> DAYOFWEEK(d), week |-> WEEKOFYEAR(d)]

\* build_dim_time without the branch of the arrival dates
build_dim_time_no_arrivals(i94, weather) ==
    LET dep(i)    == time_row(i.dep_date)
        obs(w)    == time_row(w.dt)
        hasdep(i) == NotNull(i.dep_date)
        departed  == Where(i94, {i \in DOMAIN i94 : hasdep(i)})
    IN  Union(Distinct(Select(departed, [i \in DOMAIN departed |-> dep(i)])),
              Distinct(Select(weather, [w \in DOMAIN weather |-> obs(w)])))

\* build_dim_time without the branch of the departure dates
build_dim_time_no_departures(i94, weather) ==
    LET arr(i) == time_row(i.arr_date)
        obs(w) == time_row(w.dt)
    IN  Union(Distinct(Select(i94, [i \in DOMAIN i94 |-> arr(i)])),
              Distinct(Select(weather, [w \in DOMAIN weather |-> obs(w)])))

build_dim_time(i94, weather) ==
    LET arr(i)    == time_row(i.arr_date)
        dep(i)    == time_row(i.dep_date)
        obs(w)    == time_row(w.dt)
        hasdep(i) == NotNull(i.dep_date)
        departed  == Where(i94, {i \in DOMAIN i94 : hasdep(i)})
    IN  Union(Union(Distinct(Select(i94, [i \in DOMAIN i94 |-> arr(i)])),
                    Distinct(Select(departed, [i \in DOMAIN departed |-> dep(i)]))),
              Distinct(Select(weather, [w \in DOMAIN weather |-> obs(w)])))

\* airports_pivot with COUNT(DISTINCT *): equal airport records count once
airports_pivot_distinct(airports) ==
    LET key(a)   == [iso_region |-> a.iso_region, municipality |-> a.municipality]
        group(k) == {a \in DOMAIN airports : key(a) = k}
        out(k)   == [iso_region |-> k.iso_region, municipality |-> k.municipality,
                     number_of_airports |-> Some(Cardinality(group(k)))]
    IN  [r \in {out(key(a)) : a \in DOMAIN airports} |-> 1]

\* airports_pivot_table
airports_pivot(airports) ==
    LET key(a)   == [iso_region |-> a.iso_region, municipality |-> a.municipality]
        group(k) == {a \in DOMAIN airports : key(a) = k}
        out(k)   == [iso_region |-> k.iso_region, municipality |-> k.municipality,
                     number_of_airports |-> Some(SumOver(group(k), airports))]
    IN  [r \in {out(key(a)) : a \in DOMAIN airports} |-> 1]

NoAirportGroup ==
    [iso_region |-> NULL, municipality |-> NULL, number_of_airports |-> NULL]

build_dim_cities(cities, airports) ==
    LET on(dc, a)  == SqlEq(dc.city, a.municipality) /\ SqlEq(dc.state_code, a.iso_region)
        row(dc, a) ==
            [city                              |-> dc.city,
             state                             |-> dc.state,
             state_code                        |-> dc.state_code,
             median_age                        |-> dc.median_age,
             male_population                   |-> dc.male_population,
             female_population                 |-> dc.female_population,
             total_population                  |-> dc.total_population,
             number_of_veterans                |-> dc.number_of_veterans,
             foreign_born                      |-> dc.foreign_born,
             avg_household_size                |-> dc.avg_household_size,
             american_indian_and_alaska_native |-> dc.american_indian_and_alaska_native,
             asian                             |-> dc.asian,
             white                             |-> dc.white,
             hispanic_or_latino                |-> dc.hispanic_or_latino,
             black_or_african_american         |-> dc.black_or_african_american,
             number_of_airports                |-> a.number_of_airports]
        pivot      == airports_pivot(airports)
        m          == LeftJoin(cities, pivot,
                               {p \in Pairs(cities, pivot) : on(p[1], p[2])},
                               NoAirportGroup)
    IN  Select(m, [p \in DOMAIN m |-> row(p[1], p[2])])

\* steps 1 and 2 of the fact table: the projection of the cleaned events
project_fact(i94) ==
    LET row(i) == [id                     |-> i.id,
                   country_of_residence   |-> i.country_of_residence,
                   country_of_citizenship |-> i.country_of_citizenship,
                   city_of_entry          |-> i.city_of_entry,
                   state_of_entry_code    |-> i.state_of_entry_code,
                   border_cross_method    |-> i.border_cross_method,
                   type_of_visa           |-> i.type_of_visa,
                   class_of_admission     |-> i.class_of_admission,
                   gender                 |-> i.gender,
                   age                    |-> i.age,
                   arr_date               |-> i.arr_date,
                   dep_date               |-> i.dep_date,
                   year                   |-> YEAR(i.arr_date),
                   month                  |-> MONTH(i.arr_date),
                   day                    |-> DAY(i.arr_date)]
    IN  Select(i94, [i \in DOMAIN i94 |-> row(i)])

\* the ON clause of the weather enrichment
same_city_month(f, w) ==
    /\ SqlEq(YEAR(f.arr_date), YEAR(w.dt))
    /\ SqlEq(MONTH(f.arr_date), MONTH(w.dt))
    /\ SqlEq(f.city_of_entry, w.city)
    /\ SqlEq(f.state_of_entry_code, w.state)

NoWeatherRow ==
    [dt |-> NULL, year |-> NULL, month |-> NULL, day |-> NULL, city |-> NULL,
     state |-> NULL, lat |-> NULL, lon |-> NULL, avg_temperature |-> NULL]

\* step 3 of the fact table: the weather enrichment
build_fact(i94, weather) ==
    LET row(f, w) == [id                     |-> f.id,
                      country_of_residence   |-> f.country_of_residence,
                      country_of_citizenship |-> f.country_of_citizenship,
                      city_of_entry          |-> f.city_of_entry,
                      state_of_entry_code    |-> f.state_of_entry_code,
                      border_cross_method    |-> f.border_cross_method,
                      type_of_visa           |-> f.type_of_visa,
                      class_of_admission     |-> f.class_of_admission,
                      gender                 |-> f.gender,
                      age                    |-> f.age,
                      arr_date               |-> f.arr_date,
                      dep_date               |-> f.dep_date,
                      year                   |-> f.year,
                      month                  |-> f.month,
                      day                    |-> f.day,
                      avg_temperature        |-> w.avg_temperature]
        events    == project_fact(i94)
        m         == LeftJoin(events, weather,
                              {p \in Pairs(events, weather) : same_city_month(p[1], p[2])},
                              NoWeatherRow)
    IN  Select(m, [p \in DOMAIN m |-> row(p[1], p[2])])

\* model_data = [fact_i94_history_table, dim_cities_table, dim_time_table]
build_model_data(pre) ==
    <<build_fact(pre.i94, pre.weather),
      build_dim_cities(pre.demographic, pre.airports),
      build_dim_time(pre.i94, pre.weather)>>

---------------------------------------------------------------------------
(* The data lake                                                           *)

\* a table path that holds nothing
Absent == << >>

\* a table path holding table T, written by the run named run
Stored(run, T) == <<[run |-> run, table |-> T]>>

\* spark.read.parquet of a table path
ReadTable(slot) == slot[1].table

EmptyTable == EmptyBag

NoLayer ==
    [i94 |-> Absent, demographic |-> Absent, weather |-> Absent, airports |-> Absent]

NoAnalytics == [fact_i94_history |-> Absent, dim_cities |-> Absent, dim_time |-> Absent]

\* no run of main has ended yet
NoSnapshot == << >>

\* the four tables of a layer as written by the current run
WriteLayer(tables) ==
    [i94         |-> Stored("current", tables.i94),
     demographic |-> Stored("current", tables.demographic),
     weather     |-> Stored("current", tables.weather),
     airports    |-> Stored("current", tables.airports)]

\* the four tables of a layer as a run before this one left them
PreviousLayer(tables) ==
    [i94         |-> Stored("previous", tables.i94),
     demographic |-> Stored("previous", tables.demographic),
     weather     |-> Stored("previous", tables.weather),
     airports    |-> Stored("previous", tables.airports)]

\* what each path of a layer holds, whichever run wrote it
Content(layer) ==
    [path \in DOMAIN layer |->
        IF layer[path] = Absent THEN Absent ELSE <<ReadTable(layer[path])>>]

\* the four tables read back from a layer
ReadLayer(layer) ==
    [i94         |-> ReadTable(layer.i94),
     demographic |-> ReadTable(layer.demographic),
     weather     |-> ReadTable(layer.weather),
     airports    |-> ReadTable(layer.airports)]

---------------------------------------------------------------------------
(* The datasets of the model                                               *)

\* the bag of the elements of a sequence
SeqToBag(s) == BagFrom([i \in DOMAIN s |-> s[i]], [i \in DOMAIN s |-> 1])

\* every bag of at most n rows drawn from Rows
BagsUpTo(Rows, n) == {SeqToBag(s) : s \in UNION {[1..k -> Rows] : k \in 0..n}}

MaxFactRows == 2

MaxDemoRows == 2

MaxAirportRows == 2

MaxWeatherRows == 2

MaxGateRows == 2

MaxCodeRows == 2

MaxCityRows == 2

MaxRegionAirports == 3

country_table == SetToBag({[code |-> Some(582), country_name |-> Some("Mexico")]})

port_table ==
    SetToBag({[code |-> Some("CHI"), port_location |-> Some("Chicago"), state |-> Some("il")],
              [code |-> Some("XXX"), port_location |-> NULL, state |-> Some("il")]})

mode_table == SetToBag({[code |-> Some(1), border_cross_method |-> Some("Air")]})

visa_table == SetToBag({[code |-> Some(2), visa_type |-> Some("Pleasure")]})

states_df == SetToBag({[code |-> Some("il"), state |-> Some("Illinois")]})

\* arrdate / depdate values: 2016-03-01 and 2016-04-05 as SAS day numbers
SasDays == {Some(20514), Some(20549)}

RawEvent(cicid, port, arr, dep) ==
    [cicid |-> cicid, i94res |-> Some(582), i94cit |-> Some(582), i94port |-> port,
     i94mode |-> Some(1), i94visa |-> Some(2), visatype |-> Some("B2"),
     gender |-> Some("F"), i94bir |-> Some(30), arrdate |-> arr, depdate |-> dep]

RawFactRows ==
    {RawEvent(c, p, a, d) : c \in {NULL, Some(1)}, p \in {Some("CHI"), Some("XXX")},
                            a \in SasDays \cup {NULL}, d \in SasDays \cup {NULL}}

RawCity(city, state, code, age, race, count) ==
    [city |-> city, state |-> state, median_age |-> age,
     male_population |-> Some(100), female_population |-> Some(110),
     total_population |-> Some(210), number_of_veterans |-> Some(5),
     foreign_born |-> Some(20), avg_household_size |-> Some(2),
     state_code |-> code, race |-> race, count |-> count]

RawDemoRows ==
    {RawCity(Some("Chicago"), s, c, a, r, n) :
        s \in {NULL, Some("Illinois")}, c \in {NULL, Some("il")},
        a \in {Some(34)}, r \in {Some("Asian"), Some("White")},
        n \in {Some(500), Some(1000)}}
    \cup
    {RawCity(Some("Chicago"), Some("Illinois"), Some("il"), Some(35), Some("Asian"),
             Some(500))}

RawAirport(type, country, region, city, lon, lat) ==
    [type |-> type, name |-> Some("Field"), elevation_ft |-> Some(600),
     iso_country |-> country, iso_region |-> region, municipality |-> city,
     gps_code |-> Some("KXXX"), coordinates |-> Some(<<lon, lat>>)]

\* airports of Chicago 1/Unit short of one degree, one degree and two degrees
\* north of the weather location at 41N 87W
RawAirportRows ==
    {RawAirport(Some("small_airport"), Some("US"), Some(<<"US", r>>), Some("Chicago"),
                0 - 87 * Unit, 41 * Unit + d) :
        r \in {"IL", "IN"}, d \in {Unit - 1, Unit, 2 * Unit}}

RawObservation(dt, temp, lat) ==
    [dt |-> Some(dt), AverageTemperature |-> temp, City |-> Some("Chicago"),
     Country |-> Some("United States"), Latitude |-> Some(<<lat, "N">>),
     Longitude |-> Some(<<87 * Unit, "W">>)]

\* observations of Chicago at 41N 87W and at 42N 87W
RawWeatherRows ==
    {RawObservation(d, t, l) : d \in {<<2016, 4, 5>>, <<2016, 4, 20>>},
                               t \in {Some(10), Some(20)},
                               l \in {41 * Unit, 42 * Unit}}

BaseFact ==
    SetToBag({RawEvent(Some(1), Some("CHI"), Some(20549), NULL),
              RawEvent(Some(1), Some("CHI"), Some(20514), Some(20549))})

BaseDemo ==
    SetToBag({RawCity(Some("Chicago"), Some("Illinois"), Some("il"), Some(34),
                      Some("Asian"), Some(500)),
              RawCity(Some("Chicago"), Some("Illinois"), Some("il"), Some(34),
                      Some("White"), Some(1000))})

BaseAirports ==
    SetToBag({RawAirport(Some("small_airport"), Some("US"), Some(<<"US", "IL">>),
                         Some("Chicago"), 0 - 87 * Unit, 41 * Unit + Unit - 1),
              RawAirport(Some("small_airport"), Some("US"), Some(<<"US", "IN">>),
                         Some("Chicago"), 0 - 87 * Unit, 41 * Unit + 2 * Unit)})

BaseWeather == SetToBag({RawObservation(<<2016, 3, 1>>, Some(10), 41 * Unit)})

Input(fact, demo, airports, weather) ==
    [i94_table        |-> fact,
     country_table    |-> country_table,
     port_table       |-> port_table,
     mode_table       |-> mode_table,
     visa_table       |-> visa_table,
     states_df        |-> states_df,
     cities_pop_table |-> demo,
     airports_table   |-> airports,
     weather_table    |-> weather]

\* a travel event with the given reference codes
CodedEvent(cicid, res, cit, port, mode, visa) ==
    [cicid |-> cicid, i94res |-> res, i94cit |-> cit, i94port |-> port,
     i94mode |-> mode, i94visa |-> visa, visatype |-> Some("B2"),
     gender |-> Some("F"), i94bir |-> Some(30), arrdate |-> Some(20549),
     depdate |-> NULL]

\* for each of two cicid: an event whose codes all resolve, events with one
\* code that is unknown (country of residence, country of citizenship, port,
\* state of the port, mode, visa) or NULL, and an event with no known code
CodedFactRows ==
    UNION {{CodedEvent(Some(k), Some(582), Some(582), Some("CHI"), Some(1), Some(2)),
            CodedEvent(Some(k), Some(999), Some(582), Some("CHI"), Some(1), Some(2)),
            CodedEvent(Some(k), Some(582), Some(999), Some("CHI"), Some(1), Some(2)),
            CodedEvent(Some(k), Some(582), Some(582), Some("ZZZ"), Some(1), Some(2)),
            CodedEvent(Some(k), Some(582), Some(582), Some("NYC"), Some(1), Some(2)),
            CodedEvent(Some(k), Some(582), Some(582), Some("CHI"), Some(9), Some(2)),
            CodedEvent(Some(k), Some(582), Some(582), Some("CHI"), Some(1), Some(9)),
            CodedEvent(Some(k), NULL, Some(582), Some("CHI"), Some(1), Some(2)),
            CodedEvent(Some(k), Some(999), Some(999), Some("ZZZ"), Some(9), Some(9))} :
           k \in {1, 2}}

\* the port NYC, of a state that us_states.csv does not hold
port_table_nyc ==
    port_table (+) SetToBag({[code |-> Some("NYC"), port_location |-> Some("New York"),
                             state |-> Some("ny")]})

\* the dictionaries: with unique codes, with the country code 582 twice, and
\* with the state code il twice
Dictionaries ==
    {[country_table |-> country_table, port_table |-> port_table_nyc,
      mode_table |-> mode_table, visa_table |-> visa_table, states_df |-> states_df],
     [country_table |-> country_table (+) SetToBag({[code |-> Some(582),
                                                      country_name |-> Some("Canada")]}),
      port_table |-> port_table_nyc,
      mode_table |-> mode_table, visa_table |-> visa_table, states_df |-> states_df],
     [country_table |-> country_table, port_table |-> port_table_nyc,
      mode_table |-> mode_table, visa_table |-> visa_table,
      states_df |-> states_df (+) SetToBag({[code |-> Some("il"),
                                             state |-> Some("Indiana")]})]}

InputWith(dict, fact) ==
    [i94_table        |-> fact,
     country_table    |-> dict.country_table,
     port_table       |-> dict.port_table,
     mode_table       |-> dict.mode_table,
     visa_table       |-> dict.visa_table,
     states_df        |-> dict.states_df,
     cities_pop_table |-> BaseDemo,
     airports_table   |-> BaseAirports,
     weather_table    |-> BaseWeather]

\* what a run of the pipeline before this one left in analytics/*
PreviousAnalytics ==
    LET md == build_model_data(process_source_tables(load_source_tables(
                  Input(BaseFact, BaseDemo, BaseAirports, BaseWeather))))
    IN  [fact_i94_history |-> Stored("previous", md[1]),
         dim_cities       |-> Stored("previous", md[2]),
         dim_time         |-> Stored("previous", md[3])]

\* demographic records of Chicago, Illinois (two of them of one category),
\* of Chicago, Indiana and of Gary, Indiana, a city without airport
CityDemoRows ==
    {RawCity(Some("Chicago"), Some("Illinois"), Some("il"), Some(34), Some("Asian"),
             Some(500)),
     RawCity(Some("Chicago"), Some("Illinois"), Some("il"), Some(34), Some("Asian"),
             Some(1000)),
     RawCity(Some("Chicago"), Some("Indiana"), Some("in"), Some(34), Some("White"),
             Some(1000)),
     RawCity(Some("Gary"), Some("Indiana"), Some("in"), Some(34), Some("Asian"),
             Some(500))}

\* airports of Chicago: of Illinois 1/Unit short of one degree and one degree
\* north of 41N 87W, of Indiana 1/Unit short of one degree and two degrees
\* north of it
RegionAirportRows ==
    {RawAirport(Some("small_airport"), Some("US"), Some(<<"US", "IL">>), Some("Chicago"),
                0 - 87 * Unit, 41 * Unit + Unit - 1),
     RawAirport(Some("small_airport"), Some("US"), Some(<<"US", "IL">>), Some("Chicago"),
                0 - 87 * Unit, 41 * Unit + Unit),
     RawAirport(Some("small_airport"), Some("US"), Some(<<"US", "IN">>), Some("Chicago"),
                0 - 87 * Unit, 41 * Unit + Unit - 1),
     RawAirport(Some("small_airport"), Some("US"), Some(<<"US", "IN">>), Some("Chicago"),
                0 - 87 * Unit, 41 * Unit + 2 * Unit)}

\* what a run before this one left in source/* and in preprocessed/*
PreviousSource ==
    PreviousLayer(load_source_tables(Input(BaseFact, BaseDemo, BaseAirports, BaseWeather)))

PreviousPreprocessed ==
    PreviousLayer(process_source_tables(load_source_tables(
                      Input(BaseFact, BaseDemo, BaseAirports, BaseWeather))))

\* a travel events dataset other than the one of the run before
OtherFact == SetToBag({RawEvent(Some(1), Some("CHI"), Some(20549), NULL)})

---------------------------------------------------------------------------
(* The pipeline: main                                                      *)

InitRun ==
    /\ pc = "load"
    /\ source = NoLayer
    /\ preprocessed = NoLayer
    /\ analytics \in {NoAnalytics, PreviousAnalytics}
    /\ model_data = <<EmptyTable, EmptyTable, EmptyTable>>
    /\ check_res = FALSE
    /\ first_run = NoSnapshot

\* the travel events vary
InitFact ==
    /\ InitRun
    /\ \E f \in BagsUpTo(RawFactRows, MaxFactRows) :
          input_data = Input(f, BaseDemo, BaseAirports, BaseWeather)

\* the demographic records vary
InitDemo ==
    /\ InitRun
    /\ \E c \in BagsUpTo(RawDemoRows, MaxDemoRows) :
          input_data = Input(BaseFact, c, BaseAirports, BaseWeather)

\* the airports and the weather observations vary
InitWeather ==
    /\ InitRun
    /\ \E a \in BagsUpTo(RawAirportRows, MaxAirportRows) :
       \E w \in BagsUpTo(RawWeatherRows, MaxWeatherRows) :
          input_data = Input(BaseFact, BaseDemo, a, w)

\* the reference codes of the travel events and the dictionaries vary
InitCodes ==
    /\ InitRun
    /\ \E d \in Dictionaries :
       \E f \in BagsUpTo(CodedFactRows, MaxCodeRows) :
          input_data = InputWith(d, f)

\* the cities and the airports vary
InitCities ==
    /\ InitRun
    /\ \E c \in BagsUpTo(CityDemoRows, MaxCityRows) :
       \E a \in BagsUpTo(RawAirportRows, MaxAirportRows) :
          input_data = Input(BaseFact, c, a, BaseWeather)

\* the weather observations and the airports of two regions vary
InitRegions ==
    /\ InitRun
    /\ \E a \in BagsUpTo(RegionAirportRows, MaxRegionAirports) :
       \E w \in BagsUpTo(RawWeatherRows, MaxWeatherRows) :
          input_data = Input(BaseFact, BaseDemo, a, w)

\* each dataset is empty or not
Init ==
    /\ InitRun
    /\ \E f \in {EmptyTable, BaseFact}, c \in {EmptyTable, BaseDemo},
          a \in {EmptyTable, BaseAirports}, w \in {EmptyTable, BaseWeather} :
          input_data = Input(f, c, a, w)

\* load_source_data
LoadSourceData ==
    /\ pc = "load"
    /\ source' = WriteLayer(load_source_tables(input_data))
    /\ pc' = "process"
    /\ UNCHANGED <<input_data, preprocessed, analytics, model_data, check_res, first_run>>

\* process_source_data
ProcessSourceData ==
    /\ pc = "process"
    /\ preprocessed' = WriteLayer(process_source_tables(ReadLayer(source)))
    /\ pc' = "build"
    /\ UNCHANGED <<input_data, source, analytics, model_data, check_res, first_run>>

\* build_data_model up to model_data
BuildTables ==
    /\ pc = "build"
    /\ model_data' = build_model_data(ReadLayer(preprocessed))
    /\ pc' = "check"
    /\ UNCHANGED <<input_data, source, preprocessed, analytics, check_res, first_run>>

\* CheckQuality clearing analytics/* before the return of the else branch
CheckQuality_ClearsOutput ==
    /\ pc = "check"
    /\ check_res' = check_model_quality(model_data)
    /\ pc' = IF check_res' THEN "write_fact" ELSE "returned"
    /\ analytics' = IF check_res' THEN analytics ELSE NoAnalytics
    /\ UNCHANGED <<input_data, source, preprocessed, model_data, first_run>>

\* CheckQuality without the return of the else branch: the writes follow a
\* failed gate too
CheckQuality_NoReturn ==
    /\ pc = "check"
    /\ check_res' = check_model_quality(model_data)
    /\ pc' = "write_fact"
    /\ UNCHANGED <<input_data, source, preprocessed, analytics, model_data, first_run>>

\* build_data_model: the quality gate and its early return
CheckQuality ==
    /\ pc = "check"
    /\ check_res' = check_model_quality(model_data)
    /\ pc' = IF check_res' THEN "write_fact" ELSE "returned"
    /\ UNCHANGED <<input_data, source, preprocessed, analytics, model_data, first_run>>

\* WriteFact with mode('append'): the rows are added to what the path holds
WriteFact_Append ==
    /\ pc = "write_fact"
    /\ analytics' =
          [analytics EXCEPT !.fact_i94_history =
              Stored("current",
                     IF analytics.fact_i94_history = Absent THEN model_data[1]
                     ELSE ReadTable(analytics.fact_i94_history) (+) model_data[1])]
    /\ pc' = "write_cities"
    /\ UNCHANGED <<input_data, source, preprocessed, model_data, check_res, first_run>>

\* fact_i94_history_table.write ... mode('overwrite')
WriteFact ==
    /\ pc = "write_fact"
    /\ analytics' = [analytics EXCEPT !.fact_i94_history = Stored("current", model_data[1])]
    /\ pc' = "write_cities"
    /\ UNCHANGED <<input_data, source, preprocessed, model_data, check_res, first_run>>

\* the write raises: the path keeps its content or is left empty, and the
\* exception ends build_data_model and main
WriteFactRaises ==
    /\ pc = "write_fact"
    /\ \E left \in {analytics.fact_i94_history, Absent} :
          analytics' = [analytics EXCEPT !.fact_i94_history = left]
    /\ pc' = "raised"
    /\ UNCHANGED <<input_data, source, preprocessed, model_data, check_res, first_run>>

\* WriteCities without the write: dim_cities is not stored
WriteCities_Skipped ==
    /\ pc = "write_cities"
    /\ pc' = "write_time"
    /\ UNCHANGED <<input_data, source, preprocessed, analytics, model_data, check_res,
                   first_run>>

\* dim_cities_table.write ... mode('overwrite')
WriteCities ==
    /\ pc = "write_cities"
    /\ analytics' = [analytics EXCEPT !.dim_cities = Stored("current", model_data[2])]
    /\ pc' = "write_time"
    /\ UNCHANGED <<input_data, source, preprocessed, model_data, check_res, first_run>>

WriteCitiesRaises ==
    /\ pc = "write_cities"
    /\ \E left \in {analytics.dim_cities, Absent} :
          analytics' = [analytics EXCEPT !.dim_cities = left]
    /\ pc' = "raised"
    /\ UNCHANGED <<input_data, source, preprocessed, model_data, check_res, first_run>>

\* dim_time_table.write ... mode('overwrite'), then the normal end
WriteTime ==
    /\ pc = "write_time"
    /\ analytics' = [analytics EXCEPT !.dim_time = Stored("current", model_data[3])]
    /\ pc' = "done"
    /\ UNCHANGED <<input_data, source, preprocessed, model_data, check_res, first_run>>

WriteTimeRaises ==
    /\ pc = "write_time"
    /\ \E left \in {analytics.dim_time, Absent} :
          analytics' = [analytics EXCEPT !.dim_time = left]
    /\ pc' = "raised"
    /\ UNCHANGED <<input_data, source, preprocessed, model_data, check_res, first_run>>

\* what the call build_data_model(...) of main hands back to main: the bare
\* return after a failed gate and the end of the function body after the
\* writes both give None, and a write that raises gives its exception
build_data_model_outcome ==
    CASE pc = "returned" -> [ends |-> "returns", value |-> "None"]
      [] pc = "done"     -> [ends |-> "returns", value |-> "None"]
      [] pc = "raised"   -> [ends |-> "raises", value |-> "exception"]
      [] OTHER           -> [ends |-> "running", value |-> "none yet"]

Next ==
    \/ LoadSourceData
    \/ ProcessSourceData
    \/ BuildTables
    \/ CheckQuality
    \/ WriteFact
    \/ WriteFactRaises
    \/ WriteCities
    \/ WriteCitiesRaises
    \/ WriteTime
    \/ WriteTimeRaises

Spec == Init /\ [][Next]_vars

SpecFact == InitFact /\ [][Next]_vars

SpecDemo == InitDemo /\ [][Next]_vars

SpecWeather == InitWeather /\ [][Next]_vars

SpecCodes == InitCodes /\ [][Next]_vars

SpecCities == InitCities /\ [][Next]_vars

SpecRegions == InitRegions /\ [][Next]_vars

---------------------------------------------------------------------------
(* main run a second time on the same datasets                             *)

\* the content of the three layers
LayersContent ==
    [source       |-> Content(source),
     preprocessed |-> Content(preprocessed),
     analytics    |-> Content(analytics)]

\* the datasets and what the three layers hold before the first run vary
InitRerun ==
    /\ pc = "load"
    /\ source \in {NoLayer, PreviousSource}
    /\ preprocessed \in {NoLayer, PreviousPreprocessed}
    /\ analytics \in {NoAnalytics, PreviousAnalytics}
    /\ model_data = <<EmptyTable, EmptyTable, EmptyTable>>
    /\ check_res = FALSE
    /\ first_run = NoSnapshot
    /\ \E f \in {EmptyTable, BaseFact, OtherFact}, c \in {EmptyTable, BaseDemo},
          a \in {EmptyTable, BaseAirports}, w \in {EmptyTable, BaseWeather} :
          input_data = Input(f, c, a, w)

\* main ended normally and is started again with the same input_data
Rerun ==
    /\ pc \in {"done", "returned"}
    /\ first_run = NoSnapshot
    /\ first_run' = LayersContent
    /\ pc' = "load"
    /\ model_data' = <<EmptyTable, EmptyTable, EmptyTable>>
    /\ check_res' = FALSE
    /\ UNCHANGED <<input_data, source, preprocessed, analytics>>

NextRerun ==
    \/ Next
    \/ Rerun

SpecRerun == InitRerun /\ [][NextRerun]_vars

---------------------------------------------------------------------------
(* check_model_quality on arbitrary tables                                 *)

GateDates ==
    {Some(DaysFromCivil(2016, 3, 1)), Some(DaysFromCivil(2016, 4, 5)),
     Some(DaysFromCivil(2016, 4, 20)), Some(DaysFromCivil(2015, 4, 5))}

GateFactRow(d) ==
    [id |-> Some(1), country_of_residence |-> Some("MEXICO"),
     country_of_citizenship |-> Some("MEXICO"), city_of_entry |-> Some("CHICAGO"),
     state_of_entry_code |-> Some("IL"), border_cross_method |-> Some("Air"),
     type_of_visa |-> Some("Pleasure"), class_of_admission |-> Some("B2"),
     gender |-> Some("F"), age |-> Some(30), arr_date |-> d, dep_date |-> NULL,
     year |-> YEAR(d), month |-> MONTH(d), day |-> DAY(d), avg_temperature |-> NULL]

GateFactRows == {GateFactRow(d) : d \in GateDates \cup {NULL}}

GateTimeRows == {time_row(d) : d \in GateDates \cup {NULL}}

GateCityRows == DOMAIN ReadTable(PreviousAnalytics.dim_cities)

InitGate ==
    /\ pc = "check"
    /\ input_data = Input(EmptyTable, EmptyTable, EmptyTable, EmptyTable)
    /\ source = NoLayer
    /\ preprocessed = NoLayer
    /\ analytics = NoAnalytics
    /\ \E f \in BagsUpTo(GateFactRows, MaxGateRows),
          c \in BagsUpTo(GateCityRows, MaxGateRows),
          t \in BagsUpTo(GateTimeRows, MaxGateRows) :
          model_data = <<f, c, t>>
    /\ check_res = FALSE
    /\ first_run = NoSnapshot

NextGate == CheckQuality

SpecGate == InitGate /\ [][NextGate]_vars

---------------------------------------------------------------------------
(* Properties                                                              *)

\* build_data_model has called check_model_quality
AfterCheck == pc \in {"returned", "write_fact", "write_cities", "write_time", "done", "raised"}

\* build_data_model has built model_data
AfterBuild == pc = "check" \/ AfterCheck

\* process_source_data has written the preprocessed layer
AfterProcess == pc = "build" \/ AfterBuild

\* the table path holds a table written by this run
IsCurrent(slot) == slot # Absent /\ slot[1].run = "current"

NoneCurrent ==
    /\ ~IsCurrent(analytics.fact_i94_history)
    /\ ~IsCurrent(analytics.dim_cities)
    /\ ~IsCurrent(analytics.dim_time)

AllCurrent ==
    /\ IsCurrent(analytics.fact_i94_history)
    /\ IsCurrent(analytics.dim_cities)
    /\ IsCurrent(analytics.dim_time)

\* C1: whenever check_model_quality returns failure for the three constructed
\* tables, build_data_model returns and none of fact_i94_history, dim_cities,
\* dim_time is written by this run.
C1_GateFailureWritesNothing ==
    (AfterCheck /\ ~check_model_quality(model_data)) => (pc = "returned" /\ NoneCurrent)

\* the gate failed and the tables of the previous run are still in place
C1_Witness ==
    /\ pc = "returned"
    /\ ~check_model_quality(model_data)
    /\ analytics = PreviousAnalytics

YearMonth(d) == <<CivilFromDays(Val(d))[1], CivilFromDays(Val(d))[2]>>

\* some dim_time row has the year and month of the arrival date
MonthCovered(arr_date, time) ==
    /\ arr_date # NULL
    /\ \E t \in BagToSet(time) : t.dt # NULL /\ YearMonth(t.dt) = YearMonth(arr_date)

SourceDates ==
    LET pre == ReadLayer(preprocessed)
    IN  {i.arr_date : i \in BagToSet(pre.i94)}
        \cup {i.dep_date : i \in {j \in BagToSet(pre.i94) : j.dep_date # NULL}}
        \cup {w.dt : w \in BagToSet(pre.weather)}

\* C4: dim_time holds exactly one row per date of the union of the cleaned
\* arrival dates, non-null departure dates and weather observation dates.
C4_TimeIsUnionOfDates ==
    AfterBuild =>
        /\ {t.dt : t \in BagToSet(model_data[3])} = SourceDates
        /\ BagCardinality(model_data[3]) = Cardinality(SourceDates)

\* dim_time built from two events and a weather observation that share dates:
\* a departure date that is no arrival date, and an arrival date that is also
\* a weather date
C4_Witness ==
    /\ pc = "check"
    /\ LET pre == ReadLayer(preprocessed)
       IN  /\ \E i \in BagToSet(pre.i94) :
                 /\ i.dep_date # NULL
                 /\ \A j \in BagToSet(pre.i94) : j.arr_date # i.dep_date
                 /\ \A w \in BagToSet(pre.weather) : w.dt # i.dep_date
           /\ \E i \in BagToSet(pre.i94), w \in BagToSet(pre.weather) : i.arr_date = w.dt
    /\ BagCardinality(model_data[3]) = 2

\* the four mandatory fields of a travel event are present
HasMandatoryFields(i) ==
    /\ i.id # NULL
    /\ i.state_of_entry_code # NULL
    /\ i.city_of_entry # NULL
    /\ i.arr_date # NULL

\* the departure date is before the arrival date
DepartsBeforeArrival(i) ==
    i.dep_date # NULL /\ i.arr_date # NULL /\ Val(i.dep_date) < Val(i.arr_date)

\* C5: every cleaned fact row has a non-null id, entry state, entry city and
\* arrival date and a departure date that is null or not before the arrival
\* date; a conformed row with a null departure date and the four fields is
\* retained, and a row whose departure precedes its arrival is dropped.
C5_CleanFactRows ==
    AfterProcess =>
        LET src == BagToSet(ReadTable(source.i94))
            pre == BagToSet(ReadTable(preprocessed.i94))
        IN  /\ \A i \in pre :
                  /\ HasMandatoryFields(i)
                  /\ (i.dep_date = NULL \/ Val(i.dep_date) >= Val(i.arr_date))
            /\ \A i \in src : (HasMandatoryFields(i) /\ i.dep_date = NULL) => i \in pre
            /\ \A i \in src : DepartsBeforeArrival(i) => i \notin pre

\* the event arriving 2016-04-05 without departure date is retained and the
\* event arriving 2016-04-05 and departing 2016-03-01 is dropped
C5_Witness ==
    /\ pc = "build"
    /\ \E i \in BagToSet(ReadTable(preprocessed.i94)) :
          i.arr_date = Some(DaysFromCivil(2016, 4, 5)) /\ i.dep_date = NULL
    /\ \E i \in BagToSet(ReadTable(source.i94)) :
          /\ HasMandatoryFields(i)
          /\ i.arr_date = Some(DaysFromCivil(2016, 4, 5))
          /\ i.dep_date = Some(DaysFromCivil(2016, 3, 1))
          /\ i \notin BagToSet(ReadTable(preprocessed.i94))

\* the rows of the demographic source that pass the null filter
FilteredDemographic ==
    {c \in BagToSet(ReadTable(source.demographic)) : c.city # NULL /\ c.state_code # NULL}

\* the number of rows of table T, duplicates counted, that are in K
CountRows(T, K) == BagCardinality([r \in (DOMAIN T) \cap K |-> T[r]])

\* C6: for every (city, state) pair of the filtered demographic source the
\* pivoted table contains exactly one row.
C6_OneRowPerCityState ==
    AfterProcess =>
        \A c \in FilteredDemographic :
            LET same(r) == r.city = c.city /\ r.state = c.state
                T       == ReadTable(preprocessed.demographic)
            IN  CountRows(T, {r \in DOMAIN T : same(r)}) = 1

\* the five category labels, each with its column of the pivoted table
Categories ==
    {"American Indian and Alaska Native", "Asian", "White", "Hispanic or Latino",
     "Black or African-American"}

CategoryColumn(r, label) ==
    CASE label = "American Indian and Alaska Native" -> r.american_indian_and_alaska_native
      [] label = "Asian"                             -> r.asian
      [] label = "White"                             -> r.white
      [] label = "Hispanic or Latino"                -> r.hispanic_or_latino
      [] label = "Black or African-American"         -> r.black_or_african_american

\* C7: in every row of the pivoted table each category column equals a count
\* the source holds for the row's (city, state) and the category label, and
\* is null when the source has no row of that category for the pair.
C7_CategoryCounts ==
    AfterProcess =>
        \A r \in BagToSet(ReadTable(preprocessed.demographic)) :
        \A label \in Categories :
            LET S == {c \in FilteredDemographic :
                         c.city = r.city /\ c.state = r.state /\ c.race = Some(label)}
            IN  IF S = {} THEN CategoryColumn(r, label) = NULL
                ELSE CategoryColumn(r, label) \in {c.count : c \in S}

\* the columns of a travel event shared by the cleaned table and the fact table
EventColumns(i) ==
    [id |-> i.id, country_of_residence |-> i.country_of_residence,
     country_of_citizenship |-> i.country_of_citizenship,
     city_of_entry |-> i.city_of_entry, state_of_entry_code |-> i.state_of_entry_code,
     border_cross_method |-> i.border_cross_method, type_of_visa |-> i.type_of_visa,
     class_of_admission |-> i.class_of_admission, gender |-> i.gender, age |-> i.age,
     arr_date |-> i.arr_date, dep_date |-> i.dep_date]

\* C8: the fact table has exactly one row per row of the cleaned fact table.
C8_OneFactRowPerEvent ==
    AfterBuild =>
        LET clean == ReadTable(preprocessed.i94)
        IN  /\ BagCardinality(model_data[1]) = BagCardinality(clean)
            /\ \A i \in BagToSet(clean) :
                  LET same(f) == EventColumns(f) = EventColumns(i)
                  IN  CountRows(model_data[1], {f \in DOMAIN model_data[1] : same(f)})
                          = CountRows(clean, {f \in DOMAIN clean : same(f)})

\* C9: the preprocessed weather table holds at most one row per
\* (city, region, year, month).
C9_WeatherKeyUnique ==
    AfterProcess =>
        LET W == ReadTable(preprocessed.weather)
        IN  \A r \in BagToSet(W) :
                LET same(x) == /\ x.city = r.city
                               /\ x.state = r.state
                               /\ x.year = r.year
                               /\ x.month = r.month
                IN  CountRows(W, {x \in DOMAIN W : same(x)}) = 1

\* airport a is in the municipality city and nearer than DISTANCE_THRESHOLD
\* degrees to (lat, lon)
Qualifies(a, city, lat, lon) ==
    /\ a.municipality = city
    /\ (Val(a.lat) - Val(lat)) * (Val(a.lat) - Val(lat))
         + (Val(a.lon) - Val(lon)) * (Val(a.lon) - Val(lon))
         < (Unit * DISTANCE_THRESHOLD) * (Unit * DISTANCE_THRESHOLD)

\* the weather observations of the source layer that pass the null filter
FilteredObservations ==
    {w \in BagToSet(ReadTable(source.weather)) :
        /\ w.avg_temperature # NULL
        /\ w.dt # NULL
        /\ w.city # NULL
        /\ w.lat # NULL
        /\ w.lon # NULL}

\* C10: a weather location receives a region only from a cleaned airport of
\* the same municipality at a distance strictly below 1 degree, and an
\* observation whose location has no such airport is absent from the
\* preprocessed weather table.
C10_RegionOnlyFromNearAirport ==
    AfterProcess =>
        LET W == BagToSet(ReadTable(preprocessed.weather))
            A == BagToSet(ReadTable(preprocessed.airports))
        IN  /\ \A r \in W :
                  \E a \in A : Qualifies(a, r.city, r.lat, r.lon) /\ a.iso_region = r.state
            /\ \A w \in FilteredObservations :
                  (\A a \in A : ~Qualifies(a, w.city, w.lat, w.lon))
                      => \A r \in W : ~(r.city = w.city /\ r.lat = w.lat /\ r.lon = w.lon)

\* one location got the region IL of the airport at its place and not the
\* region IN of the airport of the same municipality exactly one degree away,
\* and the observation of the other location, one degree from the nearest
\* airport, was dropped
C10_Witness ==
    /\ pc = "build"
    /\ LET W == BagToSet(ReadTable(preprocessed.weather))
           A == BagToSet(ReadTable(preprocessed.airports))
       IN  /\ \E r \in W :
                 /\ r.state = Some("IL")
                 /\ \E a \in A :
                       /\ a.municipality = r.city
                       /\ a.iso_region = Some("IN")
                       /\ a.lon = r.lon
                       /\ Val(a.lat) - Val(r.lat) = Unit * DISTANCE_THRESHOLD
                 /\ \A x \in W : x.state # Some("IN")
           /\ \E w \in FilteredObservations :
                 /\ \A r \in W : r.lat # w.lat
                 /\ \E a \in A : a.municipality = w.city


\* every code occurs once in dictionary T
UniqueCodes(T) ==
    \A x \in DOMAIN T : T[x] = 1 /\ \A y \in DOMAIN T : x.code = y.code => x = y

AllCodesUnique ==
    /\ UniqueCodes(input_data.country_table)
    /\ UniqueCodes(input_data.port_table)
    /\ UniqueCodes(input_data.mode_table)
    /\ UniqueCodes(input_data.visa_table)
    /\ UniqueCodes(input_data.states_df)

\* code is a code of dictionary T
Known(T, code) == code # NULL /\ \E x \in DOMAIN T : x.code = code

\* the codes of raw record r all resolve
Resolves(r) ==
    /\ Known(input_data.country_table, r.i94res)
    /\ Known(input_data.country_table, r.i94cit)
    /\ Known(input_data.mode_table, r.i94mode)
    /\ Known(input_data.visa_table, r.i94visa)
    /\ r.i94port # NULL
    /\ \E p \in DOMAIN input_data.port_table :
          p.code = r.i94port /\ Known(input_data.states_df, p.state)

AfterLoad == pc # "load"

\* C11: with unique dictionary codes, load_source_data ends without error
\* and its travel events table has one row per raw record whose codes all
\* resolve and none for the others: per cicid and in total, the rows number
\* the resolving records, duplicates counted.
C11_OneRowPerResolvedRecord ==
    (AfterLoad /\ AllCodesUnique) =>
        LET raw == input_data.i94_table
        IN  /\ source.i94 # Absent
            /\ Count(ReadTable(source.i94))
                   = CountRows(raw, {r \in DOMAIN raw : Resolves(r)})
            /\ \A k \in {r.cicid : r \in DOMAIN raw} :
                  CountRows(ReadTable(source.i94),
                            {o \in DOMAIN ReadTable(source.i94) : o.id = k})
                      = CountRows(raw, {r \in DOMAIN raw : r.cicid = k /\ Resolves(r)})

\* two equal raw records whose codes all resolve gave two rows
C11_Witness ==
    /\ AfterLoad
    /\ AllCodesUnique
    /\ \E r \in DOMAIN input_data.i94_table :
          Resolves(r) /\ input_data.i94_table[r] = 2
    /\ Count(ReadTable(source.i94)) = 2

\* the outcome main observes of a run that passed the gate and wrote the
\* three tables
PassedOutcome == [ends |-> "returns", value |-> "None"]

\* C12: after a failed gate main observes of build_data_model an outcome
\* that differs from the outcome of a run that passed the gate and wrote.
C12_GateFailureSignalled ==
    (pc = "returned" /\ ~check_res) => build_data_model_outcome # PassedOutcome

\* the second run of main has ended normally
SecondRunEnded == first_run # NoSnapshot /\ pc \in {"done", "returned"}

\* C13: when main is run again on the same datasets, the content of
\* source/*, preprocessed/* and analytics/* after the second run is their
\* content after the first run, whatever they held before the first run.
C13_RerunSameContent == SecondRunEnded => LayersContent = first_run

\* a second run ended after writing a fact table that differs from the one
\* a run before the first left behind
C13_Witness ==
    /\ SecondRunEnded
    /\ pc = "done"
    /\ first_run.analytics.fact_i94_history = <<model_data[1]>>
    /\ Count(model_data[1]) = 1

\* the number of records of the preprocessed airports table, duplicates
\* counted, of municipality city and region state_code
AirportsOf(city, state_code) ==
    LET A == ReadTable(preprocessed.airports)
    IN  CountRows(A, {a \in DOMAIN A : a.municipality = city /\ a.iso_region = state_code})

\* row d of the preprocessed demographic table with its number of airports,
\* NULL when it has none
WithAirports(d) ==
    LET n == AirportsOf(d.city, d.state_code)
    IN  [col \in (DOMAIN d) \cup {"number_of_airports"} |->
            IF col = "number_of_airports"
            THEN (IF n = 0 THEN NULL ELSE Some(n))
            ELSE d[col]]

\* C14: dim_cities holds one row per row of the preprocessed demographic
\* table, the row itself with number_of_airports the number of cleaned
\* airport records of its (city, state_code), NULL when there is none.
C14_OneCityRowWithAirportCount ==
    AfterBuild =>
        LET D == ReadTable(preprocessed.demographic)
            C == model_data[2]
        IN  /\ Count(C) = Count(D)
            /\ \A d \in DOMAIN D :
                  /\ WithAirports(d) \in DOMAIN C
                  /\ C[WithAirports(d)] = D[d]

\* a city with two airport records beside a city with none
C14_Witness ==
    /\ AfterBuild
    /\ \E x \in DOMAIN model_data[2] : x.number_of_airports = Some(2)
    /\ \E x \in DOMAIN model_data[2] : x.number_of_airports = NULL

\* the cleaned airports that qualify for the location of observation w
QualifyingAirports(w) ==
    {a \in BagToSet(ReadTable(preprocessed.airports)) :
        Qualifies(a, w.city, w.lat, w.lon)}

\* the rows of the preprocessed weather table of the date and location of w
RowsOf(w) ==
    LET W == ReadTable(preprocessed.weather)
    IN  {r \in DOMAIN W :
            r.dt = w.dt /\ r.city = w.city /\ r.lat = w.lat /\ r.lon = w.lon}

\* C15: an observation whose location has qualifying airports in k distinct
\* regions has k rows in the preprocessed weather table, one for each of
\* these regions, however many airports of a region qualify.
C15_OneRowPerRegion ==
    AfterProcess =>
        LET W == ReadTable(preprocessed.weather)
        IN  \A w \in FilteredObservations :
                LET regions == {a.iso_region : a \in QualifyingAirports(w)}
                IN  /\ CountRows(W, RowsOf(w)) = Cardinality(regions)
                    /\ \A g \in regions :
                          CountRows(W, {r \in RowsOf(w) : r.state = g}) = 1

\* an observation with three qualifying airports, two of one region and one
\* of another, and two rows
C15_Witness ==
    /\ pc = "build"
    /\ \E w \in FilteredObservations :
          /\ Cardinality(QualifyingAirports(w)) = 3
          /\ Cardinality({a.iso_region : a \in QualifyingAirports(w)}) = 2
          /\ CountRows(ReadTable(preprocessed.weather), RowsOf(w)) = 2

\* one of the three tables of model_data is empty
SomeTableEmpty ==
    \/ Count(model_data[1]) = 0
    \/ Count(model_data[2]) = 0
    \/ Count(model_data[3]) = 0

\* C16: in the tables build_data_model builds every fact row's arrival date
\* is a date of dim_time and check_query returns no row, so the gate of
\* build_data_model fails only when one of the three tables is empty.
C16_GateFailsOnlyOnEmptyTable ==
    /\ AfterBuild =>
          /\ \A f \in DOMAIN model_data[1] :
                /\ f.arr_date # NULL
                /\ \E t \in DOMAIN model_data[3] : t.dt = f.arr_date
          /\ Count(check_query(model_data[1], model_data[3])) = 0
    /\ AfterCheck => (check_res = FALSE <=> SomeTableEmpty)

\* the gate passed with a fact row whose arrival month has no other dim_time
\* row than the one of its own arrival date
C16_Witness ==
    /\ pc = "write_fact"
    /\ check_res
    /\ \E f \in DOMAIN model_data[1] :
          \A t \in DOMAIN model_data[3] :
              YearMonth(t.dt) = YearMonth(f.arr_date) => t.dt = f.arr_date

\* every path of the layer holds a table written by this run
LayerCurrent(layer) ==
    /\ IsCurrent(layer.i94)
    /\ IsCurrent(layer.demographic)
    /\ IsCurrent(layer.weather)
    /\ IsCurrent(layer.airports)

\* after the return of a failed gate source/* and preprocessed/* hold the
\* tables of this run
GateFailedLayersReplaced ==
    (pc = "returned" /\ ~check_res) =>
        /\ LayerCurrent(source)
        /\ ReadLayer(source) = load_source_tables(input_data)
        /\ LayerCurrent(preprocessed)
        /\ ReadLayer(preprocessed) = process_source_tables(ReadLayer(source))

\* a step of the run up to and including the return of a failed gate
StepUpToGateReturn == pc' \in {"process", "build", "check", "returned"}

\* C17: no step of a run up to the return of a failed gate changes
\* analytics/*, so after it analytics/* is what it was before the run, and
\* source/* and preprocessed/* then hold this run's tables.
C17_GateFailureKeepsAnalytics ==
    /\ [][StepUpToGateReturn => analytics' = analytics]_vars
    /\ []GateFailedLayersReplaced

\* the gate of a first run failed: the tables of the run before are still in
\* analytics/* while source/* holds other tables than that run left there
C17_Witness ==
    /\ pc = "returned"
    /\ ~check_res
    /\ first_run = NoSnapshot
    /\ analytics = PreviousAnalytics
    /\ LayerCurrent(source)
    /\ LayerCurrent(preprocessed)
    /\ ReadTable(source.i94) # ReadTable(PreviousSource.i94)

===========================================================================
